---- MODULE Spec2Model ----
(***************************************************************************)
(* LokSangam event API (src/api_backend/main.py): the events,              *)
(* registrations and counters collections, the sequence allocator          *)
(* get_next_sequence, and the handlers list_verified_events,               *)
(* submit_event_request, register_event (a multi-document transaction)     *)
(* and verify_event, run by concurrent clients.  Every await on the        *)
(* storage layer is one step; the validation of a request body belongs to  *)
(* the first step of its handler.                                          *)
(***************************************************************************)
EXTENDS Integers, Sequences, FiniteSets, TLC

\* ---------------------------------------------------------------- bounds
MaxTotalSeats == 6      \* largest total_seats a client submits
MaxSeatsReq == 6        \* largest seats_booked a client sends
MaxEvents == 2          \* cap on the "event_id" counter
MaxRegistrations == 2   \* cap on the "registration_id" counter

\* ------------------------------------------------------- program constants
SeatsBookedLe == 5      \* RegistrationRequest.seats_booked: Field(gt=0, le=5)

Clients == {"c1", "c2"}

\* The role stored with each user (login_user reports db_user.role).
UserRole == [c \in Clients |-> IF c = "c1" THEN "admin" ELSE "user"]

SequenceNames == {"event_id", "registration_id"}
EventIds == 1..MaxEvents

\* The inputs the clients send.
TotalSeatsInputs == {0, MaxTotalSeats}
SeatsBookedInputs == {1, SeatsBookedLe, MaxSeatsReq}

NoDoc == [id |-> 0]
NoWrite == [idx |-> 0]
NoRequest == [op |-> "none"]
NoBody == [none |-> TRUE]
NoRival == [status |-> "none"]
ThirdBooking == [status |-> "third"]
NoResponse == [client |-> "none", request |-> NoRequest, status |-> "none",
               error |-> "none", body |-> NoBody, read |-> -1, allocated |-> 0,
               solo |-> FALSE, rival |-> NoRival]

VARIABLES
    events,           \* db.events: documents in insertion order
    registrations,    \* db.registrations: committed documents
    counters,         \* db.counters: sequence name -> sequence_value
    pc,               \* each client's position in its handler
    request,          \* the request the client's handler is serving
    event_info,       \* register_event: the document find_one returned
    snapshot,         \* register_event: the transaction's read snapshot
    tx_update,        \* register_event: the uncommitted seat update
    registration_doc, \* register_event: the registration document
    event_doc,        \* submit_event_request: the event document
    response,         \* the response the step just taken returned, if any
    issued,           \* history: values get_next_sequence returned, per name
    commit_log,       \* history: committed seat updates, in commit order
    solo,             \* history: no other booking of the event overlapped
    rival,            \* history: how the one other booking of the same
                      \* event and seats ended during the client's call
    verify_ok         \* history: successful verify_event calls per event id

vars == <<events, registrations, counters, pc, request, event_info, snapshot,
          tx_update, registration_doc, event_doc, response, issued,
          commit_log, solo, rival, verify_ok>>

store == <<events, registrations, counters>>
locals == <<event_info, snapshot, tx_update, registration_doc, event_doc>>

\* ---------------------------------------------------------------- helpers
RECURSIVE SumSeats(_)
SumSeats(s) == IF s = <<>> THEN 0 ELSE Head(s).seats_booked + SumSeats(Tail(s))

First(S) == IF S = {} THEN 0 ELSE CHOOSE i \in S : \A j \in S : i <= j

\* get_current_user_role(): the mock identity context.
get_current_user_role == "admin"

\* EventBase: total_seats: int = Field(gt=0)
ValidEventCreate(total_seats) == total_seats > 0

\* (variant) seats_booked: int = Field(gt=0)
ValidRegistrationRequestNoMax(seats_booked) == seats_booked > 0

\* RegistrationRequest: seats_booked: int = Field(gt=0, le=5)
ValidRegistrationRequest(seats_booked) ==
    seats_booked > 0 /\ seats_booked <= SeatsBookedLe

\* (variant) the update is {"$set": {"sequence_value": 1}}
IncCounterSetOne(c, name) ==
    IF name \in DOMAIN c THEN [c EXCEPT ![name] = 1] ELSE c @@ (name :> 1)

\* (variant) the upsert stores the counter without incrementing it
IncCounterUpsertZero(c, name) ==
    IF name \in DOMAIN c THEN [c EXCEPT ![name] = @ + 1] ELSE c @@ (name :> 0)

\* db.counters.find_one_and_update({"_id": name}, {"$inc": {"sequence_value": 1}},
\*                                 upsert=True): the collection afterwards
IncCounter(c, name) ==
    IF name \in DOMAIN c THEN [c EXCEPT ![name] = @ + 1] ELSE c @@ (name :> 1)

\* return_document=ReturnDocument.AFTER; return result["sequence_value"]
SequenceValue(c, name) == IncCounter(c, name)[name]

CounterValue(name) == IF name \in DOMAIN counters THEN counters[name] ELSE 0

\* (variant) the filter of find_one lacks "status": "verified"
FindVerifiedAnyStatus(coll, event_id) ==
    First({i \in 1..Len(coll) : coll[i].id = event_id})

\* db.events.find_one({"id": event_id, "status": "verified"}): position or 0
FindVerified(coll, event_id) ==
    First({i \in 1..Len(coll) :
              coll[i].id = event_id /\ coll[i].status = "verified"})

\* the document update_one({"id": event_id}, ...) matches: position or 0
FindById(coll, event_id) == First({i \in 1..Len(coll) : coll[i].id = event_id})

\* (variant) the filter of verify_event's update_one lacks "status": "pending"
FindPendingAnyStatus(coll, event_id) ==
    First({i \in 1..Len(coll) : coll[i].id = event_id})

\* the document update_one({"id": event_id, "status": "pending"}, ...) matches
FindPending(coll, event_id) ==
    First({i \in 1..Len(coll) :
              coll[i].id = event_id /\ coll[i].status = "pending"})

\* (variant) a read outside a transaction returns the uncommitted seat
\* updates of the open transactions
ReadUncommitted(ev) ==
    [i \in 1..Len(ev) |->
        IF \E o \in Clients : tx_update[o].idx = i
        THEN [ev[i] EXCEPT !.remaining_seats =
                 tx_update[CHOOSE o \in Clients : tx_update[o].idx = i]
                     .remaining_seats]
        ELSE ev[i]]

\* What db.events.find / find_one return to a reader that has not written
\* the documents itself: the committed collection.
ReadCommitted(ev) == ev

\* (variant) the message reports the seats asked for
CapacityDetailRequested(remaining_seats, seats_to_book) == seats_to_book

\* detail=f"Only {remaining_seats} seats remaining."
CapacityDetail(remaining_seats, seats_to_book) == remaining_seats

\* (variant) the response carries the id of the new event
SubmitResponseBodyWithId(doc) == [message |-> "submitted", id |-> doc.id]

\* return {"message": "Event request submitted successfully. ..."}
SubmitResponseBody(doc) == [message |-> "submitted"]

\* (variant) the check only refuses a sold-out event
CapacityExceededSoldOut(remaining_seats, seats_to_book) == remaining_seats <= 0

\* (variant) the check refuses a booking of exactly the remaining seats
CapacityExceededOffByOne(remaining_seats, seats_to_book) ==
    remaining_seats <= seats_to_book

\* if remaining_seats < seats_to_book: raise 400
CapacityExceeded(remaining_seats, seats_to_book) == remaining_seats < seats_to_book

\* (variant) one seat is taken whatever the number booked
NewRemainingSeatsOneLess(remaining_seats, seats_to_book) == remaining_seats - 1

\* new_remaining_seats = remaining_seats - seats_to_book
NewRemainingSeats(remaining_seats, seats_to_book) == remaining_seats - seats_to_book

\* (variant) a write only conflicts with a commit made after the snapshot,
\* not with the write of an open transaction
WriteConflictCommittedOnly(c, idx) == events[idx] # snapshot[c][idx]

\* (variant) update_one runs outside the session: no conflict is ever raised
WriteConflictNever(c, idx) == FALSE

\* (variant) only a write of an open transaction conflicts, not a commit
\* made after the snapshot was taken
WriteConflictOpenOnly(c, idx) == \E o \in Clients \ {c} : tx_update[o].idx = idx

\* The storage layer refuses a transactional write to a document that another
\* open transaction has written, or that was changed after the snapshot.
WriteConflict(c, idx) ==
    \/ events[idx] # snapshot[c][idx]
    \/ \E o \in Clients \ {c} : tx_update[o].idx = idx

\* (variant) the update replaces the document instead of setting one field
CommitEventsReplace(ev, w) ==
    [ev EXCEPT ![w.idx] = [id |-> @.id, total_seats |-> 0,
                           remaining_seats |-> w.remaining_seats,
                           status |-> @.status]]

\* commit_transaction(): the events collection with the seat update applied
CommitEvents(ev, w) == [ev EXCEPT ![w.idx].remaining_seats = w.remaining_seats]

\* commit_transaction(): the registrations collection with the insert applied
CommitRegistrations(regs, doc) == Append(regs, doc)

\* (variant) the seat update survives the abort
AbortEventsKeepUpdate(ev, w) ==
    IF w.idx = 0 THEN ev
    ELSE [ev EXCEPT ![w.idx].remaining_seats = w.remaining_seats]

\* abort_transaction(): the uncommitted seat update is dropped
AbortEvents(ev, w) == ev

\* (variant) the insert survives the abort
AbortRegistrationsKeepInsert(regs, doc) ==
    IF doc = NoDoc THEN regs ELSE Append(regs, doc)

\* abort_transaction(): the uncommitted insert is dropped
AbortRegistrations(regs, doc) == regs

\* (variant) the sequence is incremented in the session and rolled back
AbortCountersRollback(cnt, doc) ==
    IF doc = NoDoc THEN cnt ELSE [cnt EXCEPT !["registration_id"] = @ - 1]

\* abort_transaction(): get_next_sequence(db, "registration_id") ran without
\* the session, so that its increment stays
AbortCounters(cnt, doc) == cnt

\* (variant) the handler returns without commit or abort
ClosedTransactionStaysOpen(w) == w

\* The session's uncommitted seat update once commit_transaction() or
\* abort_transaction() has run: none.
ClosedTransaction(w) == NoWrite

\* update_one({"id": e, "status": "pending"}, {"$set": {"status": "verified"}})
SetVerified(ev, idx) == IF idx = 0 THEN ev ELSE [ev EXCEPT ![idx].status = "verified"]

\* The client is inside register_event's transaction.
Active(c) == pc[c] \in {"find", "update", "sequence", "insert", "commit"}

\* Another client's booking of the same event is in progress.
Overlapping(c, event_id) ==
    {o \in Clients \ {c} : Active(o) /\ request[o].event_id = event_id}

\* The other clients whose /event/register request for the event is being
\* served, validation included.
Rivals(c, req) ==
    IF req.op # "register" THEN {}
    ELSE {o \in Clients \ {c} : /\ request[o].op = "register"
                                /\ request[o].event_id = req.event_id}

\* The committed remaining_seats of the verified event with the id, or -1.
CommittedSeats(event_id) ==
    LET S == {i \in 1..Len(events) :
                 events[i].id = event_id /\ events[i].status = "verified"}
    IN  IF S = {} THEN -1 ELSE events[First(S)].remaining_seats

\* ------------------------------------------------------------------- Init
Init ==
    /\ events = <<>>
    /\ registrations = <<>>
    /\ counters = <<>>
    /\ pc = [c \in Clients |-> "idle"]
    /\ request = [c \in Clients |-> NoRequest]
    /\ event_info = [c \in Clients |-> NoDoc]
    /\ snapshot = [c \in Clients |-> <<>>]
    /\ tx_update = [c \in Clients |-> NoWrite]
    /\ registration_doc = [c \in Clients |-> NoDoc]
    /\ event_doc = [c \in Clients |-> NoDoc]
    /\ response = NoResponse
    /\ issued = [n \in SequenceNames |-> <<>>]
    /\ commit_log = <<>>
    /\ solo = [c \in Clients |-> FALSE]
    /\ rival = [c \in Clients |-> NoRival]
    /\ verify_ok = [e \in EventIds |-> 0]

\* The handler of client c raises or returns: its response, and the end of
\* its locals and of its session.
Respond(c, req, status, exc, body) ==
    /\ response' = [client |-> c, request |-> req, status |-> status,
                    error |-> exc, body |-> body,
                    read |-> IF event_info[c] = NoDoc THEN -1
                             ELSE event_info[c].remaining_seats,
                    allocated |-> IF registration_doc[c] = NoDoc THEN 0
                                  ELSE registration_doc[c].registration_id,
                    solo |-> IF Active(c) THEN solo[c]
                             ELSE req.op = "register"
                                  /\ Overlapping(c, req.event_id) = {},
                    rival |-> rival[c]]
    /\ pc' = [pc EXCEPT ![c] = "idle"]
    /\ request' = [request EXCEPT ![c] = NoRequest]
    /\ event_info' = [event_info EXCEPT ![c] = NoDoc]
    /\ snapshot' = [snapshot EXCEPT ![c] = <<>>]
    /\ tx_update' = [tx_update EXCEPT ![c] = ClosedTransaction(@)]
    /\ registration_doc' = [registration_doc EXCEPT ![c] = NoDoc]
    /\ event_doc' = [event_doc EXCEPT ![c] = NoDoc]
    /\ solo' = [solo EXCEPT ![c] = FALSE]
    /\ rival' = [o \in Clients |->
                    IF o = c THEN NoRival
                    ELSE IF o \notin Rivals(c, req) THEN rival[o]
                    ELSE IF /\ rival[o] = NoRival
                            /\ rival[c] = NoRival
                            /\ request[o].seats_booked = req.seats_booked
                    THEN [status |-> status, error |-> exc,
                          remaining_seats |-> CommittedSeats(req.event_id)]
                    ELSE ThirdBooking]

\* The step awaits the next storage call: nothing is returned yet.
Continue == response' = NoResponse

\* session.abort_transaction() (lines 332, 336).
Abort(c) ==
    /\ events' = AbortEvents(events, tx_update[c])
    /\ registrations' = AbortRegistrations(registrations, registration_doc[c])
    /\ counters' = AbortCounters(counters, registration_doc[c])
    /\ UNCHANGED commit_log

\* --------------------------------------------------- list_verified_events
\* GET /events: db.events.find({"status": "verified"}), outside any session.
ListVerifiedEvents(c) ==
    /\ pc[c] = "idle"
    /\ Respond(c, [op |-> "list"], "OK", "none",
               [events |-> SelectSeq(ReadCommitted(events),
                                     LAMBDA d : d.status = "verified")])
    /\ UNCHANGED <<store, issued, commit_log, verify_ok>>

\* ------------------------------------------------- submit_event_request
\* POST /event/request: validation, then get_next_sequence(db, "event_id").
SubmitEventRequest(c, total_seats) ==
    /\ pc[c] = "idle"
    /\ CounterValue("event_id") < MaxEvents
    /\ LET req == [op |-> "submit", total_seats |-> total_seats] IN
       IF ~ValidEventCreate(total_seats)
       THEN /\ Respond(c, req, "Unprocessable", "none", NoBody)
            /\ UNCHANGED <<store, issued>>
       ELSE /\ pc' = [pc EXCEPT ![c] = "event_insert"]
            /\ request' = [request EXCEPT ![c] = req]
            /\ counters' = IncCounter(counters, "event_id")
            /\ issued' = [issued EXCEPT !["event_id"] =
                              Append(@, SequenceValue(counters, "event_id"))]
            /\ event_doc' = [event_doc EXCEPT ![c] =
                   [id |-> SequenceValue(counters, "event_id"),
                    total_seats |-> total_seats,
                    remaining_seats |-> total_seats,
                    status |-> "pending"]]
            /\ UNCHANGED <<events, registrations, event_info, snapshot,
                           tx_update, registration_doc, solo, rival>>
            /\ Continue
    /\ UNCHANGED <<commit_log, verify_ok>>

\* await db.events.insert_one(event_doc), or the except branch (HTTP 500).
InsertEvent(c) ==
    /\ pc[c] = "event_insert"
    /\ \E ok \in BOOLEAN :
          IF ok
          THEN /\ events' = Append(events, event_doc[c])
               /\ Respond(c, request[c], "Created", "none",
                          SubmitResponseBody(event_doc[c]))
          ELSE /\ UNCHANGED events
               /\ Respond(c, request[c], "ServerError", "StorageError", NoBody)
    /\ UNCHANGED <<registrations, counters, issued, commit_log, verify_ok>>

\* ------------------------------------------------------- register_event
\* Bookings that may still allocate a registration id.
BeforeAllocation ==
    {o \in Clients : /\ pc[o] \in {"find", "update", "sequence"}
                     /\ ValidRegistrationRequest(request[o].seats_booked)}

\* POST /event/register: the request arrives.
RegisterEvent(c, event_id, seats_booked) ==
    /\ pc[c] = "idle"
    /\ ValidRegistrationRequest(seats_booked) =>
           CounterValue("registration_id") + Cardinality(BeforeAllocation)
               < MaxRegistrations
    /\ LET req == [op |-> "register", event_id |-> event_id,
                   seats_booked |-> seats_booked] IN
       /\ pc' = [pc EXCEPT ![c] = "find"]
       /\ request' = [request EXCEPT ![c] = req]
       /\ solo' = [o \in Clients |->
                      IF o = c THEN Overlapping(c, event_id) = {}
                      ELSE IF o \in Overlapping(c, event_id) THEN FALSE
                      ELSE solo[o]]
       /\ rival' = [o \in Clients |->
                       IF o \in Rivals(c, req) /\ rival[o] # NoRival
                       THEN ThirdBooking
                       ELSE rival[o]]
    /\ UNCHANGED <<store, locals, issued, commit_log, verify_ok>>
    /\ Continue

\* reg_request: RegistrationRequest is validated (422 if it fails); then
\* lines 267-289: start_session, start_transaction, find_one in the session,
\* the NotFound and capacity checks.
FindEvent(c) ==
    /\ pc[c] = "find"
    /\ \E ok \in BOOLEAN :
          LET visible == ReadCommitted(events)
              idx == FindVerified(visible, request[c].event_id) IN
          IF ~ValidRegistrationRequest(request[c].seats_booked)
          THEN /\ Respond(c, request[c], "Unprocessable", "none", NoBody)
               /\ UNCHANGED <<store, commit_log>>
          ELSE IF ~ok
          THEN /\ Respond(c, request[c], "ServerError", "StorageError", NoBody)
               /\ Abort(c)
          ELSE IF idx = 0
          THEN /\ Respond(c, request[c], "NotFound", "none", NoBody)
               /\ Abort(c)
          ELSE IF CapacityExceeded(visible[idx].remaining_seats,
                                   request[c].seats_booked)
          THEN /\ Respond(c, request[c], "BadRequest", "none",
                          [remaining_seats |->
                               CapacityDetail(visible[idx].remaining_seats,
                                              request[c].seats_booked)])
               /\ Abort(c)
          ELSE /\ pc' = [pc EXCEPT ![c] = "update"]
               /\ event_info' = [event_info EXCEPT ![c] = visible[idx]]
               /\ snapshot' = [snapshot EXCEPT ![c] = visible]
               /\ UNCHANGED <<store, request, tx_update, registration_doc,
                              event_doc, commit_log, solo, rival>>
               /\ Continue
    /\ UNCHANGED <<issued, verify_ok>>

\* lines 291-298: update_one({"id": event_id}, {"$set": ...}, session=session).
UpdateSeats(c) ==
    /\ pc[c] = "update"
    /\ \E ok \in BOOLEAN :
          LET idx == FindById(snapshot[c], request[c].event_id) IN
          IF ~ok
          THEN /\ Respond(c, request[c], "ServerError", "StorageError", NoBody)
               /\ Abort(c)
          ELSE IF WriteConflict(c, idx)
          THEN /\ Respond(c, request[c], "ServerError", "WriteConflict", NoBody)
               /\ Abort(c)
          ELSE /\ pc' = [pc EXCEPT ![c] = "sequence"]
               /\ tx_update' = [tx_update EXCEPT ![c] =
                      [idx |-> idx,
                       read |-> event_info[c].remaining_seats,
                       remaining_seats |->
                           NewRemainingSeats(event_info[c].remaining_seats,
                                             request[c].seats_booked)]]
               /\ UNCHANGED <<store, request, event_info, snapshot,
                              registration_doc, event_doc, commit_log, solo,
                              rival>>
               /\ Continue
    /\ UNCHANGED <<issued, verify_ok>>

\* lines 304-316: get_next_sequence(db, "registration_id"), outside the
\* session, and the registration document.
AllocateRegistrationId(c) ==
    /\ pc[c] = "sequence"
    /\ \E ok \in BOOLEAN :
          IF ~ok
          THEN /\ Respond(c, request[c], "ServerError", "StorageError", NoBody)
               /\ Abort(c)
               /\ UNCHANGED issued
          ELSE /\ pc' = [pc EXCEPT ![c] = "insert"]
               /\ counters' = IncCounter(counters, "registration_id")
               /\ issued' = [issued EXCEPT !["registration_id"] =
                      Append(@, SequenceValue(counters, "registration_id"))]
               /\ registration_doc' = [registration_doc EXCEPT ![c] =
                      [registration_id |->
                           SequenceValue(counters, "registration_id"),
                       event_id |-> request[c].event_id,
                       seats_booked |-> request[c].seats_booked]]
               /\ UNCHANGED <<events, registrations, request, event_info,
                              snapshot, tx_update, event_doc, commit_log, solo,
                              rival>>
               /\ Continue
    /\ UNCHANGED verify_ok

\* line 318: db.registrations.insert_one(registration_doc, session=session).
InsertRegistration(c) ==
    /\ pc[c] = "insert"
    /\ \E ok \in BOOLEAN :
          IF ~ok
          THEN /\ Respond(c, request[c], "ServerError", "StorageError", NoBody)
               /\ Abort(c)
          ELSE /\ pc' = [pc EXCEPT ![c] = "commit"]
               /\ UNCHANGED <<store, request, locals, commit_log, solo,
                              rival>>
               /\ Continue
    /\ UNCHANGED <<issued, verify_ok>>

\* lines 321-329: commit_transaction() and the ticket.  A commit that raises
\* has applied nothing; the except branch then answers 500.
CommitTransaction(c) ==
    /\ pc[c] = "commit"
    /\ \E ok \in BOOLEAN :
          IF ~ok
          THEN /\ Respond(c, request[c], "ServerError", "StorageError", NoBody)
               /\ Abort(c)
          ELSE /\ Respond(c, request[c], "Ticket", "none",
                          [registration_id |-> registration_doc[c].registration_id,
                           seats |-> request[c].seats_booked])
               /\ events' = CommitEvents(events, tx_update[c])
               /\ registrations' =
                      CommitRegistrations(registrations, registration_doc[c])
               /\ commit_log' = Append(commit_log,
                      [idx |-> tx_update[c].idx,
                       seats_booked |-> request[c].seats_booked,
                       read |-> tx_update[c].read,
                       remaining_seats |-> tx_update[c].remaining_seats])
               /\ UNCHANGED counters
    /\ UNCHANGED <<issued, verify_ok>>

\* --------------------------------------------------------- verify_event
\* POST /admin/verify/{event_id}: the role check, one update_one, the answer.
VerifyEvent(c, event_id) ==
    /\ pc[c] = "idle"
    /\ LET req == [op |-> "verify", event_id |-> event_id]
           idx == FindPending(events, event_id) IN
       IF get_current_user_role # "admin"
       THEN /\ Respond(c, req, "Forbidden", "none", NoBody)
            /\ UNCHANGED <<events, verify_ok>>
       ELSE /\ events' = SetVerified(events, idx)
            /\ Respond(c, req, IF idx = 0 THEN "NotFound" ELSE "Verified",
                       "none", NoBody)
            /\ verify_ok' = [verify_ok EXCEPT ![event_id] =
                                IF idx = 0 THEN @ ELSE @ + 1]
    /\ UNCHANGED <<registrations, counters, issued, commit_log>>

\* ------------------------------------------------------------------- Next
Next ==
    \E c \in Clients :
        \/ ListVerifiedEvents(c)
        \/ \E total_seats \in TotalSeatsInputs : SubmitEventRequest(c, total_seats)
        \/ InsertEvent(c)
        \/ \E e \in EventIds, s \in SeatsBookedInputs : RegisterEvent(c, e, s)
        \/ FindEvent(c)
        \/ UpdateSeats(c)
        \/ AllocateRegistrationId(c)
        \/ InsertRegistration(c)
        \/ CommitTransaction(c)
        \/ \E e \in EventIds : VerifyEvent(c, e)

Spec == Init /\ [][Next]_vars

\* Every storage call that register_event awaits returns or raises.
FairSpec ==
    /\ Spec
    /\ \A c \in Clients :
          /\ WF_vars(FindEvent(c))
          /\ WF_vars(UpdateSeats(c))
          /\ WF_vars(AllocateRegistrationId(c))
          /\ WF_vars(InsertRegistration(c))
          /\ WF_vars(CommitTransaction(c))

\* ----------------------------------------------------------------- claims
\* Read-outs of the state that the properties below are stated with.
VerifiedDocs(event_id) ==
    {i \in 1..Len(events) :
        events[i].id = event_id /\ events[i].status = "verified"}

PendingDocs(event_id) ==
    {i \in 1..Len(events) :
        events[i].id = event_id /\ events[i].status = "pending"}

SeatsInRange(s) == s >= 1 /\ s <= 5

BookedFor(event_id) ==
    SumSeats(SelectSeq(registrations, LAMBDA r : r.event_id = event_id))

EventCommits(idx) == SelectSeq(commit_log, LAMBDA w : w.idx = idx)

\* The step just taken answered a /event/register call.
Registered(rsp) == rsp.request.op = "register"

\* C1: two bookings of one event whose seats together exceed the remaining
\* seats the earlier committer read never both commit; a booking of a
\* verified event that does not commit fails with CapacityExceeded (400) or
\* with the server error of a conflict or abort (500); remaining_seats is
\* never negative.
C1_AtMostOneCommits ==
    /\ \A i, j \in 1..Len(commit_log) :
          (i < j /\ commit_log[i].idx = commit_log[j].idx) =>
              commit_log[i].seats_booked + commit_log[j].seats_booked
                  <= commit_log[i].read
    /\ (/\ Registered(response)
        /\ SeatsInRange(response.request.seats_booked)
        /\ VerifiedDocs(response.request.event_id) # {}
        /\ response.status # "Ticket")
       => response.status \in {"BadRequest", "ServerError"}
    /\ \A i \in 1..Len(events) : events[i].remaining_seats >= 0

\* C1 witness: a booking was refused with a write conflict after another
\* booking that read the same remaining_seats r committed, each asking for
\* no more than r and the two together for more than r.
C1_Witness ==
    /\ Registered(response)
    /\ response.error = "WriteConflict"
    /\ \E k \in 1..Len(commit_log) :
          /\ events[commit_log[k].idx].id = response.request.event_id
          /\ commit_log[k].read = response.read
          /\ commit_log[k].seats_booked <= response.read
          /\ response.request.seats_booked <= response.read
          /\ commit_log[k].seats_booked + response.request.seats_booked
                 > response.read
          /\ events[commit_log[k].idx].remaining_seats >= 0

\* C2: every event's remaining_seats is its total_seats minus the seats of
\* the committed registrations that reference it.
C2_SeatsConsistent ==
    \A i \in 1..Len(events) :
        events[i].remaining_seats =
            events[i].total_seats - BookedFor(events[i].id)

\* C2 witness: an event with committed registrations, next to another event.
C2_Witness ==
    /\ Len(events) = 2
    /\ \E i \in 1..Len(events) :
          /\ BookedFor(events[i].id) > 0
          /\ events[i].remaining_seats < events[i].total_seats

\* C3: every event has 0 <= remaining_seats <= total_seats.
C3_SeatsInRange ==
    \A i \in 1..Len(events) :
        /\ 0 <= events[i].remaining_seats
        /\ events[i].remaining_seats <= events[i].total_seats

\* C3 witness: an event sold out by two committed bookings.
C3_Witness ==
    \E i \in 1..Len(events) :
        /\ events[i].remaining_seats = 0
        /\ Len(EventCommits(i)) = 2

\* The answer to a booking that no other booking of the event overlapped
\* and that met no storage failure.
SoloBooking(rsp) ==
    /\ Registered(rsp)
    /\ rsp.solo
    /\ rsp.error # "StorageError"

\* C4 as stated: a booking of a verified event with r remaining seats that
\* runs alone and without storage failure succeeds and leaves r - s when
\* s <= r, and fails with CapacityExceeded and leaves r when s > r (so that
\* bookings of 7 and of 6 seats are answered by the capacity rule).
C4_AnySeats ==
    [][\A i \in 1..Len(events) :
          (/\ SoloBooking(response')
           /\ VerifiedDocs(response'.request.event_id) = {i})
          => LET r == events[i].remaining_seats
                 s == response'.request.seats_booked
             IN  IF s <= r
                 THEN /\ response'.status = "Ticket"
                      /\ events'[i].remaining_seats = r - s
                 ELSE /\ response'.status = "BadRequest"
                      /\ events'[i].remaining_seats = r]_vars

\* C4 amended: the same for 1 <= s <= 5; a request for more than 5 seats is
\* refused by the request validation (422) and leaves remaining_seats = r.
C4_ValidSeats ==
    [][\A i \in 1..Len(events) :
          (/\ SoloBooking(response')
           /\ VerifiedDocs(response'.request.event_id) = {i})
          => LET r == events[i].remaining_seats
                 s == response'.request.seats_booked
             IN  IF ~SeatsInRange(s)
                 THEN /\ response'.status = "Unprocessable"
                      /\ events'[i].remaining_seats = r
                 ELSE IF s <= r
                 THEN /\ response'.status = "Ticket"
                      /\ events'[i].remaining_seats = r - s
                 ELSE /\ response'.status = "BadRequest"
                      /\ response'.body.remaining_seats = r
                      /\ events'[i].remaining_seats = r]_vars

\* C4 witness: a booking that ran alone got its ticket and left r - s seats,
\* with r the seats it read.
C4_Witness ==
    /\ SoloBooking(response)
    /\ response.status = "Ticket"
    /\ \E i \in VerifiedDocs(response.request.event_id) :
          events[i].remaining_seats
              = response.read - response.request.seats_booked

\* The events collection differs from ev in the remaining_seats of exactly
\* one document.
OneSeatUpdate(ev, ev2) ==
    /\ Len(ev2) = Len(ev)
    /\ \E i \in 1..Len(ev) :
          /\ ev2[i].remaining_seats # ev[i].remaining_seats
          /\ ev2 = [ev EXCEPT ![i].remaining_seats = ev2[i].remaining_seats]

\* C5: a register_event call either commits, changing the remaining_seats
\* of exactly one event and adding exactly one registration, or fails and
\* leaves the committed events and registrations as they were; none of its
\* steps before the last writes to the committed collections.
C5_AllOrNothing ==
    [][/\ Registered(response') =>
             IF response'.status = "Ticket"
             THEN /\ OneSeatUpdate(events, events')
                  /\ Len(registrations') = Len(registrations) + 1
                  /\ SubSeq(registrations', 1, Len(registrations))
                         = registrations
             ELSE /\ events' = events
                  /\ registrations' = registrations
       /\ \A c \in Clients :
             (Active(c) /\ pc'[c] # pc[c] /\ response' = NoResponse) =>
                 /\ events' = events
                 /\ registrations' = registrations]_vars

\* C5 witness: a booking that had read its event failed on a storage error,
\* a registration id is used up by a failed booking, and the committed
\* collections hold no trace of either.
C5_Witness ==
    /\ Registered(response)
    /\ response.error = "StorageError"
    /\ response.read >= 0
    /\ CounterValue("registration_id") > Len(registrations)
    /\ \E i \in VerifiedDocs(response.request.event_id) :
          events[i].remaining_seats = response.read

\* C6: the n-th value get_next_sequence returns for a name is n, so that n
\* calls return exactly 1..n, and the calls on another name do not count.
C6_SequenceGapless ==
    \A n \in SequenceNames :
        /\ \A k \in 1..Len(issued[n]) : issued[n][k] = k
        /\ CounterValue(n) = Len(issued[n])

\* C6 witness: both sequences were used, one of them more often.
C6_Witness ==
    /\ Len(issued["event_id"]) = 2
    /\ Len(issued["registration_id"]) = 1

\* C7: a register_event call for an event id that no verified event has
\* (the event is pending, or there is none) is answered NotFound, unless the
\* read of the event itself failed, and it leaves events and registrations
\* as they were.
C7_NotFound ==
    [][(/\ Registered(response')
        /\ SeatsInRange(response'.request.seats_booked)
        /\ VerifiedDocs(response'.request.event_id) = {})
       => /\ response'.status = "NotFound"
             \/ response'.error = "StorageError"
          /\ events' = events
          /\ registrations' = registrations]_vars

\* C7 witness: a booking of a pending event was answered NotFound.
C7_Witness ==
    /\ Registered(response)
    /\ response.status = "NotFound"
    /\ PendingDocs(response.request.event_id) # {}

\* C8: verify_event answers success exactly when a pending event has the id,
\* and then sets that event's status to verified; otherwise it answers
\* NotFound and changes nothing; so an event is verified by exactly one
\* successful call.
C8_VerifyOnce ==
    [][/\ response'.request.op = "verify" =>
             LET e == response'.request.event_id IN
             IF PendingDocs(e) # {}
             THEN /\ response'.status = "Verified"
                  /\ \E i \in PendingDocs(e) :
                        events' = [events EXCEPT ![i].status = "verified"]
             ELSE /\ response'.status = "NotFound"
                  /\ events' = events
       /\ \A e \in EventIds :
             /\ verify_ok'[e] <= 1
             /\ verify_ok'[e] = 1 <=>
                    \E i \in 1..Len(events') :
                        events'[i].id = e /\ events'[i].status = "verified"]_vars

\* C8 witness: a repeated verify_event of a verified event answered NotFound.
C8_Witness ==
    /\ response.request.op = "verify"
    /\ response.status = "NotFound"
    /\ verify_ok[response.request.event_id] = 1
    /\ VerifiedDocs(response.request.event_id) # {}

\* C9: a verify_event call of a user whose role is not admin is answered
\* Forbidden.
C9_NonAdminForbidden ==
    (response.request.op = "verify" /\ UserRole[response.client] # "admin")
        => response.status = "Forbidden"

\* C10: for each event, the i-th committed booking wrote total_seats minus
\* the seats of the first i committed bookings, and no two committed
\* bookings computed from the same read value.
C10_NoLostUpdate ==
    \A idx \in 1..Len(events) :
        LET cs == EventCommits(idx) IN
        /\ \A i \in 1..Len(cs) :
              cs[i].remaining_seats
                  = events[idx].total_seats - SumSeats(SubSeq(cs, 1, i))
        /\ \A i, j \in 1..Len(cs) : i # j => cs[i].read # cs[j].read
        /\ Len(cs) > 0 => events[idx].remaining_seats = cs[Len(cs)].remaining_seats

\* C10 witness: two bookings of one event committed one after the other.
C10_Witness ==
    \E idx \in 1..Len(events) :
        /\ Len(EventCommits(idx)) = 2
        /\ EventCommits(idx)[2].read = EventCommits(idx)[1].remaining_seats

\* The answer to the second of two register_event calls for the same event
\* and the same s seats that ran at the same time, with no third booking of
\* the event beside them and no storage failure in either, the event being
\* verified with r committed remaining seats when the first of them ended,
\* s <= r < 2s: one of them fits, not both.
PairOfBookings(rsp) ==
    /\ Registered(rsp)
    /\ rsp.rival \notin {NoRival, ThirdBooking}
    /\ rsp.error # "StorageError"
    /\ rsp.rival.error # "StorageError"
    /\ rsp.request.seats_booked <= rsp.rival.remaining_seats
    /\ rsp.rival.remaining_seats < 2 * rsp.request.seats_booked

\* Of the pair exactly one call got its ticket, the other CapacityExceeded
\* or the error of a conflict; the event is left with r - s seats, by the
\* one commit made from r.
OneOfPairCommits(rsp) ==
    LET s == rsp.request.seats_booked
        r == rsp.rival.remaining_seats
        mine == [status |-> rsp.status, error |-> rsp.error]
        theirs == [status |-> rsp.rival.status, error |-> rsp.rival.error]
        loser == IF mine.status = "Ticket" THEN theirs ELSE mine
    IN  /\ (mine.status = "Ticket") # (theirs.status = "Ticket")
        /\ loser.status = "BadRequest" \/ loser.error = "WriteConflict"
        /\ \E i \in VerifiedDocs(rsp.request.event_id) :
              /\ events[i].remaining_seats = r - s
              /\ Cardinality({k \in 1..Len(commit_log) :
                                 /\ commit_log[k].idx = i
                                 /\ commit_log[k].read = r}) = 1

\* C11 as stated: of two concurrent register_event calls of s seats each
\* against a verified event with r remaining seats, s <= r < 2s (6 and 6
\* seats against 10), without storage failures, exactly one commits, the
\* event is left with r - s seats and one registration, and the other call
\* gets CapacityExceeded or a conflict error.
C11_ExactlyOneCommits ==
    PairOfBookings(response) => OneOfPairCommits(response)

\* C11 amended: the same for 1 <= s <= 5; two calls of more than 5 seats
\* each are both refused by the request validation (422), none commits and
\* the event keeps its r seats.
C11_OneOfTwoCommits ==
    PairOfBookings(response) =>
        IF SeatsInRange(response.request.seats_booked)
        THEN OneOfPairCommits(response)
        ELSE /\ response.status = "Unprocessable"
             /\ response.rival.status = "Unprocessable"
             /\ \E i \in VerifiedDocs(response.request.event_id) :
                   /\ events[i].remaining_seats
                          = response.rival.remaining_seats
                   /\ \A k \in 1..Len(commit_log) :
                         commit_log[k].idx = i =>
                             commit_log[k].read
                                 # response.rival.remaining_seats

\* C11 witness: of two concurrent bookings of s <= 5 seats each, one got its
\* ticket from r seats, r < 2s, and the other was then refused with a write
\* conflict.
C11_Witness ==
    /\ PairOfBookings(response)
    /\ SeatsInRange(response.request.seats_booked)
    /\ response.rival.status = "Ticket"
    /\ response.error = "WriteConflict"

\* C12: a register_event call that passed the request validation and fails
\* is answered with one of three kinds: NotFound, only when no verified
\* event has the id; CapacityExceeded, only with the remaining_seats of the
\* verified event as read, fewer than the seats asked for; and the generic
\* server error, exactly for a storage failure or a write conflict and with
\* no detail of it; a storage failure is never answered NotFound or
\* CapacityExceeded.
C12_ErrorKinds ==
    [][(/\ Registered(response')
        /\ SeatsInRange(response'.request.seats_booked)
        /\ response'.status # "Ticket")
       => LET e == response'.request.event_id
              s == response'.request.seats_booked
          IN  /\ response'.status \in {"NotFound", "BadRequest", "ServerError"}
              /\ response'.status = "NotFound" =>
                    /\ response'.error = "none"
                    /\ VerifiedDocs(e) = {}
              /\ response'.status = "BadRequest" =>
                    /\ response'.error = "none"
                    /\ \E i \in VerifiedDocs(e) :
                          /\ response'.body.remaining_seats
                                 = events[i].remaining_seats
                          /\ response'.body.remaining_seats < s
              /\ response'.status = "ServerError" <=>
                    response'.error \in {"StorageError", "WriteConflict"}
              /\ response'.status = "ServerError" => response'.body = NoBody]_vars

\* C12 witness: a booking of 5 seats was refused with CapacityExceeded
\* carrying the 1 seat that an earlier booking had left.
C12_Witness ==
    /\ Registered(response)
    /\ response.status = "BadRequest"
    /\ response.body.remaining_seats > 0
    /\ response.body.remaining_seats < response.request.seats_booked
    /\ \E i \in VerifiedDocs(response.request.event_id) :
          /\ events[i].remaining_seats = response.body.remaining_seats
          /\ events[i].remaining_seats < events[i].total_seats

\* The values get_next_sequence has returned for the name.
Issued(name) == {issued[name][k] : k \in 1..Len(issued[name])}

\* C13 as stated: a successful submit_event_request returns the id of the
\* event it created, the value taken from the "event_id" sequence and stored
\* in the new event document.
C13_ReturnsEventId ==
    response.status = "Created" =>
        /\ "id" \in DOMAIN response.body
        /\ response.body.id = events[Len(events)].id

\* C13 amended: a successful submit_event_request stores one new event whose
\* id is a value taken from the "event_id" sequence, and returns a
\* confirmation message only, without that id.
C13_ReturnsMessageOnly ==
    [][response'.status = "Created" =>
          /\ Len(events') = Len(events) + 1
          /\ SubSeq(events', 1, Len(events)) = events
          /\ events'[Len(events')].id \in Issued("event_id")
          /\ DOMAIN response'.body = {"message"}]_vars

\* C13 witness: the second event was stored with id 2 and the call was
\* answered with the message.
C13_Witness ==
    /\ response.status = "Created"
    /\ Len(events) = 2
    /\ events[Len(events)].id = 2
    /\ "message" \in DOMAIN response.body

\* C14: an event document is only ever added with status pending,
\* remaining_seats = total_seats and an id that no other event has; the ids
\* of all events differ; an event still pending has all its seats, and every
\* registration and every ticket is for an event that a verify_event call
\* has succeeded on.
C14_NewEventPending ==
    [][/\ Len(events') # Len(events) =>
             /\ Len(events') = Len(events) + 1
             /\ response'.request.op = "submit"
             /\ LET doc == events'[Len(events')] IN
                /\ doc.status = "pending"
                /\ doc.remaining_seats = doc.total_seats
                /\ \A i \in 1..Len(events) : events[i].id # doc.id
       /\ \A i, j \in 1..Len(events') :
             i # j => events'[i].id # events'[j].id
       /\ \A i \in 1..Len(events') :
             events'[i].status = "pending" =>
                 /\ events'[i].remaining_seats = events'[i].total_seats
                 /\ verify_ok'[events'[i].id] = 0
       /\ \A k \in 1..Len(registrations') :
             verify_ok'[registrations'[k].event_id] >= 1
       /\ response'.status = "Ticket" =>
             verify_ok[response'.request.event_id] >= 1]_vars

\* C14 witness: two submit_event_request calls overlapped, the one that took
\* id 2 stored its event first, and the event with id 1 has just been stored
\* after it, pending and with all its seats.
C14_Witness ==
    /\ response.status = "Created"
    /\ Len(events) = 2
    /\ events[1].id = 2
    /\ events[2].id = 1
    /\ events[2].status = "pending"
    /\ events[2].remaining_seats = events[2].total_seats

\* C15: the step that answers a register_event call with its ticket adds
\* exactly one registration, with the event_id and seats_booked of the
\* request and the registration_id of the ticket; no other step adds one,
\* and no step changes or removes a registration that is there; every
\* registration has 1 <= seats_booked <= 5, and no two have the same
\* registration_id.
C15_OneRegistration ==
    [][/\ IF response'.status = "Ticket"
          THEN registrations' = Append(registrations,
                   [registration_id |-> response'.body.registration_id,
                    event_id |-> response'.request.event_id,
                    seats_booked |-> response'.request.seats_booked])
          ELSE registrations' = registrations
       /\ response'.status = "Ticket" =>
             response'.body.seats = response'.request.seats_booked
       /\ \A k \in 1..Len(registrations') :
             SeatsInRange(registrations'[k].seats_booked)
       /\ \A k, l \in 1..Len(registrations') :
             k # l => registrations'[k].registration_id
                          # registrations'[l].registration_id]_vars

\* C15 witness: two bookings that ran at the same time both got a ticket,
\* and the one that took the higher registration id committed first.
C15_Witness ==
    /\ response.status = "Ticket"
    /\ Len(registrations) = 2
    /\ registrations[1].registration_id > registrations[2].registration_id
    /\ registrations[2].registration_id = response.body.registration_id

\* The clients whose transaction holds an uncommitted seat update.
OpenWrites == {c \in Clients : tx_update[c] # NoWrite}

\* C16: while a transaction holds an uncommitted seat update or
\* registration, list_verified_events returns the event with the
\* remaining_seats the transaction read, another booking reads (and reports
\* in CapacityExceeded) that same value, and the registrations collection
\* has no document with the transaction's registration_id; committed
\* remaining_seats and registrations only ever change, by the pending
\* writes of its own transaction, in the step that answers a booking with
\* its ticket, so that what an aborted transaction wrote is never seen.
C16_UncommittedInvisible ==
    [][/\ \A c \in OpenWrites :
             LET w == tx_update[c]
                 e == events[w.idx].id
             IN  /\ response'.request.op = "list" =>
                       \A k \in 1..Len(response'.body.events) :
                           response'.body.events[k].id = e =>
                               response'.body.events[k].remaining_seats
                                   = w.read
                 /\ \A o \in Clients \ {c} :
                       /\ (/\ event_info[o] = NoDoc
                           /\ event_info'[o] # NoDoc
                           /\ event_info'[o].id = e)
                          => event_info'[o].remaining_seats = w.read
                       /\ (/\ response'.client = o
                           /\ response'.status = "BadRequest"
                           /\ response'.request.event_id = e)
                          => response'.body.remaining_seats = w.read
       /\ \A c \in Clients :
             registration_doc[c] # NoDoc =>
                 \A k \in 1..Len(registrations) :
                     registrations[k].registration_id
                         # registration_doc[c].registration_id
       /\ \A i \in 1..Len(events) :
             events'[i].remaining_seats # events[i].remaining_seats =>
                 /\ response'.status = "Ticket"
                 /\ tx_update[response'.client].idx = i
                 /\ tx_update[response'.client].remaining_seats
                        = events'[i].remaining_seats
       /\ registrations' # registrations =>
             /\ response'.status = "Ticket"
             /\ registrations' =
                    Append(registrations,
                           registration_doc[response'.client])]_vars

\* C16 witness: list_verified_events answered while a transaction held an
\* uncommitted seat update and registration, and listed the event with the
\* seats that transaction had read.
C16_Witness ==
    /\ response.request.op = "list"
    /\ \E c \in OpenWrites :
          /\ registration_doc[c] # NoDoc
          /\ tx_update[c].remaining_seats < tx_update[c].read
          /\ \E k \in 1..Len(response.body.events) :
                /\ response.body.events[k].id = events[tx_update[c].idx].id
                /\ response.body.events[k].remaining_seats = tx_update[c].read

\* C17: the read of the event and the seat update leave db.counters as it
\* is, and the allocation that follows them advances "registration_id" by
\* one; a register_event call that fails leaves db.counters as the failing
\* step found it; it had allocated no registration id when it fails with
\* NotFound, CapacityExceeded or a write conflict, and it had allocated one
\* exactly when it fails at the registration insert or at the commit, and
\* then the counter has passed that id and no registration carries it.
C17_CounterOnFailure ==
    [][\A c \in Clients :
          /\ (pc[c] \in {"find", "update"} /\ pc'[c] # pc[c]) =>
                counters' = counters
          /\ (pc[c] = "sequence" /\ pc'[c] = "insert") =>
                /\ counters'["registration_id"]
                       = CounterValue("registration_id") + 1
                /\ \A n \in DOMAIN counters \ {"registration_id"} :
                       counters'[n] = counters[n]
                /\ registration_doc'[c].registration_id
                       = CounterValue("registration_id") + 1
          /\ (/\ response'.client = c
              /\ Registered(response')
              /\ response'.status # "Ticket")
             => /\ counters' = counters
                /\ (\/ response'.status \in {"NotFound", "BadRequest"}
                    \/ response'.error = "WriteConflict")
                   => /\ response'.allocated = 0
                      /\ pc[c] \in {"find", "update"}
                /\ response'.allocated # 0 <=> pc[c] \in {"insert", "commit"}
                /\ response'.allocated # 0 =>
                      /\ response'.allocated \in Issued("registration_id")
                      /\ response'.allocated <= counters'["registration_id"]
                      /\ \A k \in 1..Len(registrations') :
                            registrations'[k].registration_id
                                # response'.allocated]_vars

\* C17 witness: a booking failed at its commit after it had taken
\* registration id 1; the counter stays at 1 and there is no registration.
C17_Witness ==
    /\ Registered(response)
    /\ response.error = "StorageError"
    /\ response.allocated = 1
    /\ CounterValue("registration_id") = 1
    /\ registrations = <<>>

\* C18: no step removes an event or changes an event's id or total_seats;
\* a verified event stays verified, so that no status goes back to pending;
\* and a step of verify_event leaves every remaining_seats as it is.
C18_LifecycleMonotonic ==
    [][/\ Len(events') >= Len(events)
       /\ \A i \in 1..Len(events) :
             /\ events'[i].id = events[i].id
             /\ events'[i].total_seats = events[i].total_seats
             /\ events[i].status = "verified" =>
                    events'[i].status = "verified"
             /\ events'[i].status \in {"pending", "verified"}
             /\ response'.request.op = "verify" =>
                    events'[i].remaining_seats = events[i].remaining_seats]_vars

\* C18 witness: verify_event has just verified one event while the other
\* event, verified before and booked since, keeps its status and its seats.
C18_Witness ==
    /\ response.request.op = "verify"
    /\ response.status = "Verified"
    /\ \E i, j \in 1..Len(events) :
          /\ events[i].id = response.request.event_id
          /\ events[i].status = "verified"
          /\ events[i].remaining_seats = events[i].total_seats
          /\ j # i
          /\ events[j].status = "verified"
          /\ events[j].remaining_seats < events[j].total_seats

\* The place of a step in register_event's one pass through its storage
\* calls.
StepNumber(p) ==
    CASE p = "find" -> 1
      [] p = "update" -> 2
      [] p = "sequence" -> 3
      [] p = "insert" -> 4
      [] p = "commit" -> 5
      [] OTHER -> 0

\* The client is serving a register_event call whose request passed the
\* validation.
Booking(c) ==
    /\ pc[c] \in {"find", "update", "sequence", "insert", "commit"}
    /\ SeatsInRange(request[c].seats_booked)

\* C19: under weak fairness of the storage steps every register_event call
\* that has started its transaction returns; it goes through its storage
\* calls in order, each at most once, and returns at the one step that
\* answers it, with a ticket, NotFound, CapacityExceeded or the server
\* error; and a client whose call has returned holds no transaction: no
\* snapshot, no uncommitted seat update, no uncommitted registration.
C19_BookingReturns ==
    /\ \A c \in Clients : Booking(c) ~> (pc[c] = "idle")
    /\ [][\A c \in Clients :
             /\ (Booking(c) /\ pc'[c] # pc[c]) =>
                   \/ /\ StepNumber(pc'[c]) = StepNumber(pc[c]) + 1
                      /\ response' = NoResponse
                      /\ request'[c] = request[c]
                   \/ /\ pc'[c] = "idle"
                      /\ response'.client = c
                      /\ response'.request = request[c]
                      /\ response'.status \in {"Ticket", "NotFound",
                                              "BadRequest", "ServerError"}
                      /\ response'.status = "Ticket" => pc[c] = "commit"
             /\ (response'.client = c /\ Registered(response')) =>
                   Booking(c) \/ ~SeatsInRange(request[c].seats_booked)
             /\ pc'[c] = "idle" =>
                   /\ snapshot'[c] = <<>>
                   /\ tx_update'[c] = NoWrite
                   /\ registration_doc'[c] = NoDoc]_vars

\* C19 witness: two bookings of one event are in their transactions at the
\* same time, one holding its uncommitted seat update and registration, the
\* other about to be refused the update of the same document.
C19_Witness ==
    \E c, o \in Clients :
        /\ c # o
        /\ Booking(c)
        /\ Booking(o)
        /\ request[c].event_id = request[o].event_id
        /\ pc[c] = "commit"
        /\ pc[o] = "update"

====
